---- MODULE Spec2Model ----
(***************************************************************************)
(* Model of the JSON-RPC peer (class Client) and of the host side          *)
(* ComponentSystem of metaverse-rpc, src/src/common/json-rpc/Client.ts.    *)
(*                                                                         *)
(* JavaScript values are named by strings: "undefined", "null", "false",   *)
(* "0", "''" (the empty string), "42", "array", "object", ...              *)
(* Truthy and TypeOf give them the meaning the language gives them.        *)
(***************************************************************************)
EXTENDS Integers, Sequences, FiniteSets, TLC

(* ---------------------------- bounds ----------------------------------- *)
\* number of messages accepted by _send on one peer
MaxSubmit == 3
\* number of inbound strings handed to processMessage
MaxInbound == 2
\* number of calls made on one peer
MaxPending == 2
\* number of component instances constructed by one Component System
MaxInstances == 2
\* number of ComponentSystem.enable invocations
MaxEnable == 2
\* number of ComponentSystem.unmount invocations
MaxUnmount == 2
\* number of listeners registered through the functions of a proxy
MaxListeners == 2
\* number of proxies and functions created by the get traps of api()
MaxProxyObjects == 3

(* ------------------------ JavaScript values ---------------------------- *)
\* the id of an object that has no id property (message.id === undefined)
NoId == 0 - 1

Methods == {"A", "B"}

\* values a caller may pass as params; "circular" is an object that refers
\* to itself
ParamVals == {"undefined", "null", "array", "circular", "number", "string"}

\* the typeof operator
TypeOf(v) ==
  CASE v = "undefined" -> "undefined"
    [] v \in {"null", "array", "object", "circular"} -> "object"
    [] v \in {"number", "0", "42"} -> "number"
    [] v \in {"string", "''"} -> "string"
    [] v \in {"false", "true"} -> "boolean"
    [] OTHER -> "function"

\* ToBoolean, as applied by if (x) and !x
Truthy(v) == v \notin {"undefined", "null", "false", "0", "''"}

\* is p structured data (Array | Object) or absent: what the JSON-RPC
\* envelope allows for params
Structured(p) == p \in {"undefined", "array", "object", "circular"}

(* --------------------------- inbound text ------------------------------ *)
\* a remote error object {message, code?, data?}; "undefined" = no such key
ErrorObjects ==
  { [message |-> "boom", code |-> "-32601", data |-> "d"],
    [message |-> "undefined", code |-> "7", data |-> "undefined"] }

\* what a response may carry as result: nothing, or a JSON value
ResultVals == {"undefined", "null", "false", "0", "''", "42"}

\* message.error: absent, null or an error object
NoError == [k |-> "undefined", message |-> "undefined", code |-> "undefined",
            data |-> "undefined"]
NullError == [k |-> "null", message |-> "undefined", code |-> "undefined",
              data |-> "undefined"]
ErrorFields ==
  {NoError, NullError} \cup
  { [k |-> "object", message |-> e.message, code |-> e.code, data |-> e.data] :
      e \in ErrorObjects }
ErrorFields_boom ==
  [k |-> "object", message |-> "boom", code |-> "-32601", data |-> "d"]

\* ids a received object may carry: none, 0, those of the calls made and one
\* more
InboundIds == {NoId} \cup (0 .. (MaxPending + 1))

\* the (result, error) pairs a received object may carry: a result alone, an
\* error alone, neither, and a result together with an error
ResultsAndErrors ==
  {<<r, NoError>> : r \in ResultVals}
  \cup {<<"undefined", e>> : e \in ErrorFields}
  \cup {<<r, e>> : r \in {"0", "42"}, e \in {ErrorFields_boom}}

\* the strings a transport may deliver: text that is not JSON, the JSON text
\* of a value that is not an object, and the JSON text of an object
RawMessages ==
  { [t |-> "bad", top |-> "undefined", id |-> NoId, method |-> "undefined",
     params |-> "undefined", result |-> "undefined", error |-> NoError] }
  \cup
  { [t |-> "json", top |-> v, id |-> NoId, method |-> "undefined",
     params |-> "undefined", result |-> "undefined", error |-> NoError] :
       v \in {"null", "0", "false", "''", "42"} }
  \cup
  { [t |-> "json", top |-> "object", id |-> i, method |-> "undefined",
     params |-> "undefined", result |-> re[1], error |-> re[2]] :
       i \in InboundIds, re \in ResultsAndErrors }
  \cup
  { [t |-> "json", top |-> "object", id |-> i, method |-> "A",
     params |-> "array", result |-> "undefined", error |-> NoError] :
       i \in InboundIds }

\* JSON.parse: throws on text that is not JSON, else yields the value
JSONParse(raw) ==
  IF raw.t = "bad" THEN [threw |-> TRUE, message |-> raw]
  ELSE [threw |-> FALSE, message |-> raw]

\* the shape of a received string, as the claims speak of it
InboundShape(raw) ==
  CASE raw.t = "bad" -> "not JSON"
    [] raw.top # "object" -> IF Truthy(raw.top) THEN "not an object" ELSE "falsy"
    [] raw.id # NoId /\ raw.id # 0 /\ raw.result # "undefined" -> "result"
    [] raw.id # NoId /\ raw.id # 0 /\ raw.error.k = "object" -> "error"
    [] raw.id # NoId /\ raw.id # 0 -> "no result, no error"
    [] raw.method # "undefined" -> "notification"
    [] OTHER -> "no id, no method"

\* the value of the expression `message` in a condition
MessageTruthy(message) == Truthy(message.top)
\* message.id in a condition: undefined and 0 are falsy
IdTruthy(message) == message.id # NoId /\ message.id # 0

(* ------------------------------ state ---------------------------------- *)
VARIABLES
  connected,           \* Client._connected
  requestQueue,        \* Client._requestQueue: serialized messages
  nextMessageId,       \* Client._nextMessageId
  responsePromiseMap,  \* keys of Client._responsePromiseMap
  promises,            \* id -> the promise whose {resolve, reject} the map holds
  sent,                \* the strings handed to sendMessage, in order
  submitted,           \* the messages accepted by _send, in order
  stack,               \* the flushes in progress: what each has left to hand over
  emitted,             \* the events emitted by processMessage, in order
  inbound,             \* number of processMessage invocations
  received,            \* the string processMessage was last invoked with
  last,                \* the operation that ran last and how it ended
  registeredComponents,\* the process-wide registry: name -> class, or "none"
  classTag,            \* class -> the name stored under componentNameSymbol
  componentInstances,  \* ComponentSystem.componentInstances, in insertion order
  constructorCalls,    \* number of instances constructed so far
  enableCalls,         \* number of invocations of ComponentSystem.enable
  serverEnableCalls,   \* number of invocations of the server peer's enable
  terminateCalls,      \* number of invocations of worker.terminate
  unmountCalls,        \* number of invocations of ComponentSystem.unmount
  trace,               \* what the last ComponentSystem operation did, in order
  proxyTargets,        \* the target objects of the proxies built by api()
  proxyObjects,        \* number of proxies and functions the get traps created
  listeners            \* number of listeners registered with this.on

clientVars == <<connected, requestQueue, nextMessageId, responsePromiseMap,
                promises, sent, submitted, stack, emitted, inbound, received>>

\* no string was received yet
NothingReceived ==
  [t |-> "none", top |-> "undefined", id |-> NoId, method |-> "undefined",
   params |-> "undefined", result |-> "undefined", error |-> NoError]

systemVars == <<registeredComponents, classTag, componentInstances,
                constructorCalls, enableCalls, serverEnableCalls, terminateCalls,
                unmountCalls, trace>>

proxyVars == <<proxyTargets, proxyObjects, listeners>>

\* a promise nobody created yet, and a promise just created
NoPromise == [state |-> "none", value |-> "undefined", error |-> NoError,
              settleCalls |-> 0]
NewPromise == [state |-> "pending", value |-> "undefined", error |-> NoError,
               settleCalls |-> 0]

\* what `last` records
Outcome(op, threw, arg, id) ==
  [op |-> op, threw |-> threw, arg |-> arg, id |-> id]

(* --------------------------- helpers ----------------------------------- *)
\* JSON.stringify of {id, method, params}: a key whose value is undefined is
\* left out, which this model writes as "undefined"; seq numbers the
\* submissions so that two equal strings can be told apart
Stringify(message, seq) ==
  [id |-> message.id, method |-> message.method, params |-> message.params,
   seq |-> seq]

\* does JSON.stringify(message) throw: it does on a circular structure
StringifyThrows(message) == message.params = "circular"
\* the TypeError it throws
StringifyError ==
  [k |-> "object", message |-> "circular structure", code |-> "undefined",
   data |-> "undefined"]

\* resolve(value) of a promise: only the first settlement counts
Resolve(p, value) ==
  IF p.state = "pending"
  THEN [p EXCEPT !.state = "resolved", !.value = value,
                 !.settleCalls = p.settleCalls + 1]
  ELSE [p EXCEPT !.settleCalls = p.settleCalls + 1]

\* a peer that rejects with the fresh error and leaves the remote one out
RemoteErrorNotAssigned(error) ==
  [k |-> "object", message |-> "Remote error", code |-> "undefined",
   data |-> "undefined"]

\* Object.assign(new Error('Remote error'), message.error): the own
\* properties of the remote error overwrite those of the fresh error
RemoteError(error) ==
  [k |-> "object",
   message |-> IF error.message # "undefined" THEN error.message
               ELSE "Remote error",
   code |-> error.code,
   data |-> error.data]

\* reject(error) of a promise: only the first settlement counts
Reject(p, error) ==
  IF p.state = "pending"
  THEN [p EXCEPT !.state = "rejected", !.error = error,
                 !.settleCalls = p.settleCalls + 1]
  ELSE [p EXCEPT !.settleCalls = p.settleCalls + 1]

\* the params check of call and notify
ParamsRefused(params) ==
  TypeOf(params) # "undefined" /\ TypeOf(params) # "object"

\* a flush that reads the queue and leaves it in place (slice for splice)
SendQueuedRequestsNoSplice(q) ==
  IF connected' /\ q # << >>
  THEN /\ requestQueue' = q
       /\ sent' = Append(sent, Head(q))
       /\ stack' = Append(stack, Tail(q))
  ELSE /\ requestQueue' = q
       /\ UNCHANGED <<sent, stack>>

\* _sendQueuedRequests entered with the queue q: when connected, the whole
\* queue is spliced out, its first string is handed to sendMessage and the
\* rest waits in the loop until sendMessage returns
SendQueuedRequests(q) ==
  IF connected' /\ q # << >>
  THEN /\ requestQueue' = << >>
       /\ sent' = Append(sent, Head(q))
       /\ stack' = Append(stack, Tail(q))
  ELSE /\ requestQueue' = q
       /\ UNCHANGED <<sent, stack>>

\* _send(message)
Send(message) ==
  /\ submitted' = Append(submitted, Stringify(message, Len(submitted) + 1))
  /\ SendQueuedRequests(
       Append(requestQueue, Stringify(message, Len(submitted) + 1)))

(* ------------------------- Client operations --------------------------- *)
\* a connect signal that sets the flag and leaves the queue as it is
DidConnectNoFlush ==
  /\ connected' = TRUE
  /\ last' = Outcome("didConnect", FALSE, "undefined", NoId)
  /\ UNCHANGED systemVars
  /\ UNCHANGED proxyVars
  /\ UNCHANGED <<requestQueue, sent, stack, nextMessageId, responsePromiseMap,
                 promises, submitted, emitted, inbound, received>>

\* didConnect()
DidConnect ==
  /\ IF connected = FALSE
     THEN /\ connected' = TRUE
          /\ SendQueuedRequests(requestQueue)
     ELSE UNCHANGED <<connected, requestQueue, sent, stack>>
  /\ last' = Outcome("didConnect", FALSE, "undefined", NoId)
  /\ UNCHANGED systemVars
  /\ UNCHANGED proxyVars
  /\ UNCHANGED <<nextMessageId, responsePromiseMap, promises, submitted,
                 emitted, inbound, received>>

\* call(method, params); the transport accepts every string, so the catch
\* that rejects the promise is entered only when JSON.stringify throws
Call(method, params) ==
  /\ UNCHANGED systemVars
  /\ UNCHANGED proxyVars
  /\ IF ParamsRefused(params)
     THEN /\ last' = Outcome("call", TRUE, params, NoId)
          /\ UNCHANGED clientVars
     ELSE IF StringifyThrows([id |-> nextMessageId + 1, method |-> method,
                              params |-> params])
     THEN /\ nextMessageId < MaxPending
          /\ nextMessageId' = nextMessageId + 1
          /\ responsePromiseMap' = responsePromiseMap \cup {nextMessageId'}
          /\ promises' = [promises EXCEPT ![nextMessageId'] =
                            Reject(NewPromise, StringifyError)]
          /\ last' = Outcome("call", FALSE, params, nextMessageId')
          /\ UNCHANGED <<connected, requestQueue, sent, submitted, stack,
                         emitted, inbound, received>>
     ELSE /\ Len(submitted) < MaxSubmit
          /\ nextMessageId < MaxPending
          /\ nextMessageId' = nextMessageId + 1
          /\ responsePromiseMap' = responsePromiseMap \cup {nextMessageId'}
          /\ promises' = [promises EXCEPT ![nextMessageId'] = NewPromise]
          /\ connected' = connected
          /\ Send([id |-> nextMessageId', method |-> method,
                   params |-> params])
          /\ last' = Outcome("call", FALSE, params, nextMessageId')
          /\ UNCHANGED <<emitted, inbound, received>>

\* notify(method, params)
Notify(method, params) ==
  /\ UNCHANGED systemVars
  /\ UNCHANGED proxyVars
  /\ IF ParamsRefused(params)
        \/ StringifyThrows([id |-> NoId, method |-> method, params |-> params])
     THEN /\ last' = Outcome("notify", TRUE, params, NoId)
          /\ UNCHANGED clientVars
     ELSE /\ Len(submitted) < MaxSubmit
          /\ connected' = connected
          /\ Send([id |-> NoId, method |-> method, params |-> params])
          /\ last' = Outcome("notify", FALSE, params, NoId)
          /\ UNCHANGED <<nextMessageId, responsePromiseMap, promises,
                         emitted, inbound, received>>

\* sendMessage returns to the loop of _sendQueuedRequests that called it: the
\* loop hands over its next string, or ends and returns to its caller
SendMessageReturns ==
  /\ stack # << >>
  /\ LET top == stack[Len(stack)]
         below == SubSeq(stack, 1, Len(stack) - 1)
     IN IF top # << >>
        THEN /\ sent' = Append(sent, Head(top))
             /\ stack' = Append(below, Tail(top))
        ELSE /\ stack' = below
             /\ sent' = sent
  /\ UNCHANGED <<connected, requestQueue, nextMessageId, responsePromiseMap,
                 promises, submitted, emitted, inbound, received, last>>
  /\ UNCHANGED systemVars
  /\ UNCHANGED proxyVars

\* a lookup that takes the oldest pending entry, whatever the id received
PendingKeyOldest(message) ==
  CHOOSE i \in responsePromiseMap : \A j \in responsePromiseMap : i <= j

\* the key of this._responsePromiseMap.get(message.id)
PendingKey(message) == message.id

\* a catch that emits and does not return: the undefined message is then
\* reported a second time
ParseFailureFallsThrough == <<"error: parse", "error: null message">>

\* the catch of JSON.parse: emit 'error' with the exception and return
ParseFailure == <<"error: parse">>

\* processMessage(messageStr)
ProcessMessage(raw) ==
  /\ inbound < MaxInbound
  /\ inbound' = inbound + 1
  /\ received' = raw
  /\ LET parsed == JSONParse(raw)
         message == parsed.message
     IN
     IF parsed.threw
     THEN /\ emitted' = emitted \o ParseFailure
          /\ UNCHANGED promises
     ELSE IF ~MessageTruthy(message)
     THEN /\ emitted' = Append(emitted, "error: null message")
          /\ UNCHANGED promises
     ELSE IF IdTruthy(message)
     THEN IF message.id \in responsePromiseMap
          THEN IF Truthy(message.result)
               THEN /\ promises' = [promises EXCEPT ![PendingKey(message)] =
                                      Resolve(@, message.result)]
                    /\ UNCHANGED emitted
               ELSE IF message.error.k = "object"
               THEN /\ promises' = [promises EXCEPT ![PendingKey(message)] =
                                      Reject(@, RemoteError(message.error))]
                    /\ UNCHANGED emitted
               ELSE /\ emitted' = Append(emitted, "error: no result or error")
                    /\ UNCHANGED promises
          ELSE /\ emitted' = Append(emitted, "error: no pending request")
               /\ UNCHANGED promises
     ELSE IF Truthy(message.method)
     THEN /\ emitted' = Append(emitted, message.method)
          /\ UNCHANGED promises
     ELSE /\ emitted' = Append(emitted, "error: invalid message")
          /\ UNCHANGED promises
  /\ last' = Outcome("processMessage", FALSE, InboundShape(raw), raw.id)
  /\ UNCHANGED <<connected, requestQueue, nextMessageId, responsePromiseMap,
                 sent, submitted, stack>>
  /\ UNCHANGED systemVars
  /\ UNCHANGED proxyVars

(* ------------------------- component registry -------------------------- *)
\* the component classes of the process, named by what their lifecycle
\* hooks do when invoked: there is no such method, it returns, it throws, or
\* it returns a promise, which is fulfilled or rejected later
HookKinds == {"absent", "returns", "throws", "promise"}
Classes == HookKinds
\* a class declared as `class ... extends` the class "returns": it inherits
\* the hooks and, through its prototype chain, the static properties
Subclass == "extends returns"
Parent == "returns"
AllClasses == Classes \cup {Subclass}
hookKind(class) == IF class = Subclass THEN Parent ELSE class
\* the names classes are registered under
Names == {"Foo", "Bar"}
\* a key every object inherits from Object.prototype
InheritedKey == "toString"
\* the strings a lookup may ask for: a name is not registered until
\* registerComponent is given it
RequestNames == Names \cup {InheritedKey}

\* a registration that does not look the name up
InRegistryUnchecked(componentName) == FALSE

\* componentName in registeredComponents: the in operator also finds the
\* keys registeredComponents inherits from Object.prototype
InRegistry(componentName) ==
  \/ componentName = InheritedKey
  \/ componentName \in Names /\ registeredComponents[componentName] # "none"

\* registeredComponents[componentName]
RegistryGet(componentName) ==
  IF componentName \in Names /\ registeredComponents[componentName] # "none"
  THEN registeredComponents[componentName]
  ELSE "Object.prototype." \o componentName

\* componentNameSymbol in api: the in operator finds the tag the class has
\* itself and the tag it inherits from the class it extends
HasTag(api) ==
  /\ api \in AllClasses
  /\ \/ classTag[api] # "none"
     \/ api = Subclass /\ classTag[Parent] # "none"

\* getComponentName(klass): the tag, its own or inherited, or null
getComponentName(klass) ==
  IF klass \in AllClasses /\ classTag[klass] # "none" THEN classTag[klass]
  ELSE IF klass = Subclass /\ classTag[Parent] # "none" THEN classTag[Parent]
  ELSE "null"

\* _registerComponent(componentName, api), api a class or a plain object
RegisterComponent(componentName, api) ==
  /\ stack = << >>
  /\ IF HasTag(api)
     THEN /\ last' = Outcome("registerComponent", TRUE, "class registered", NoId)
          /\ UNCHANGED <<registeredComponents, classTag>>
     ELSE IF InRegistry(componentName)
     THEN /\ last' = Outcome("registerComponent", TRUE, "name registered", NoId)
          /\ UNCHANGED <<registeredComponents, classTag>>
     ELSE IF api \notin AllClasses
     THEN /\ last' = Outcome("registerComponent", TRUE, "not a class", NoId)
          /\ UNCHANGED <<registeredComponents, classTag>>
     ELSE /\ classTag' = [classTag EXCEPT ![api] = componentName]
          /\ registeredComponents' =
               [registeredComponents EXCEPT ![componentName] = api]
          /\ last' = Outcome("registerComponent", FALSE, componentName, NoId)
  /\ trace' = << >>
  /\ UNCHANGED clientVars
  /\ UNCHANGED proxyVars
  /\ UNCHANGED <<componentInstances, constructorCalls, enableCalls,
                 serverEnableCalls, terminateCalls, unmountCalls>>

(* -------------------------- component system -------------------------- *)
\* a trace entry: an event of the system, or a hook invoked on an instance
Event(e) == [e |-> e, inst |-> 0]
HookCall(e, inst) == [e |-> e, inst |-> inst]

\* componentInstances.has(name) and componentInstances.get(name)
MapHas(map, name) == \E k \in 1 .. Len(map) : map[k].name = name
MapGet(map, name) ==
  map[CHOOSE k \in 1 .. Len(map) : map[k].name = name].inst

\* a lookup's outcome: it threw, or it returned an instance (0 for null),
\* the instance map as it leaves it and the number of instances constructed
Returned(result, map, made) ==
  [threw |-> FALSE, result |-> result, map |-> map, made |-> made]
Threw(map, made) ==
  [threw |-> TRUE, result |-> 0, map |-> map, made |-> made]

\* the map entry of an instance fresh from its constructor (or factory);
\* inst is its identity
NewInstance(ctor, componentName, inst) ==
  [name |-> componentName, inst |-> inst, class |-> ctor,
   didMountCalls |-> 0, didMount |-> "not called",
   willUnmountCalls |-> 0, willUnmount |-> "not called"]

\* initializeComponent(ctor) on the instance map `map`
initializeComponent(ctor, map, made) ==
  LET componentName == getComponentName(ctor) IN
  IF componentName = "null" THEN Threw(map, made)
  ELSE IF MapHas(map, componentName)
  THEN Returned(MapGet(map, componentName), map, made)
  ELSE Returned(made + 1,
                Append(map, NewInstance(ctor, componentName, made + 1)),
                made + 1)

\* getComponentInstance(component): component is a string, a class, or
\* something else ("object")
getComponentInstance(component, map, made) ==
  IF component \in RequestNames
  THEN IF MapHas(map, component)
       THEN Returned(MapGet(map, component), map, made)
       ELSE IF InRegistry(component)
       THEN initializeComponent(RegistryGet(component), map, made)
       ELSE Returned(0, map, made)
  ELSE IF component \in AllClasses /\ getComponentName(component) # "null"
  THEN IF MapHas(map, getComponentName(component))
       THEN Returned(MapGet(map, getComponentName(component)), map, made)
       ELSE initializeComponent(component, map, made)
  ELSE Threw(map, made)

\* a call of getComponentInstance from the host
GetComponentInstance(component) ==
  /\ stack = << >>
  /\ LET r == getComponentInstance(component, componentInstances,
                                   constructorCalls)
     IN /\ r.made <= MaxInstances
        /\ componentInstances' = r.map
        /\ constructorCalls' = r.made
        /\ last' = Outcome("getComponentInstance", r.threw,
                           IF component \in RequestNames THEN "name"
                           ELSE IF component \in AllClasses THEN "class"
                           ELSE "other",
                           r.result)
  /\ trace' = << >>
  /\ UNCHANGED clientVars
  /\ UNCHANGED proxyVars
  /\ UNCHANGED <<registeredComponents, classTag, enableCalls,
                 serverEnableCalls, terminateCalls, unmountCalls>>

\* what RPCLoadComponents may be called with: an array of strings, or
\* something that is not an array
NameArrays ==
  {<< >>} \cup {<<n>> : n \in RequestNames}
          \cup {<<n, m>> : n \in RequestNames, m \in RequestNames}
LoadArguments ==
  {[isArray |-> TRUE, names |-> a] : a \in NameArrays}
  \cup {[isArray |-> FALSE, names |-> << >>]}

\* componentNames.map(name => ({component: getComponentInstance(name), name}))
\* from the k-th name on: the outcome carries the names that gave null
RECURSIVE MapNames(_, _, _, _, _)
MapNames(names, k, map, made, notFound) ==
  IF k > Len(names)
  THEN [threw |-> FALSE, map |-> map, made |-> made, notFound |-> notFound]
  ELSE LET r == getComponentInstance(names[k], map, made) IN
       IF r.threw
       THEN [threw |-> TRUE, map |-> r.map, made |-> r.made,
             notFound |-> notFound]
       ELSE MapNames(names, k + 1, r.map, r.made,
                     IF r.result = 0 THEN Append(notFound, names[k])
                     ELSE notFound)

\* RPCLoadComponents(componentNames); a throw rejects the handler's promise
RPCLoadComponents(componentNames) ==
  /\ stack = << >>
  /\ IF ~componentNames.isArray
     THEN /\ last' = Outcome("LoadComponents", TRUE, "not an array", NoId)
          /\ trace' = << >>
          /\ UNCHANGED <<componentInstances, constructorCalls>>
     ELSE LET r == MapNames(componentNames.names, 1, componentInstances,
                            constructorCalls, << >>)
          IN /\ r.made <= MaxInstances
             /\ componentInstances' = r.map
             /\ constructorCalls' = r.made
             /\ trace' = [k \in 1 .. Len(r.notFound) |->
                            Event("not found: " \o r.notFound[k])]
             /\ last' = Outcome("LoadComponents",
                                r.threw \/ r.notFound # << >>,
                                IF r.threw THEN "lookup threw"
                                ELSE IF r.notFound # << >>
                                THEN "Components not found" ELSE "loaded",
                                NoId)
  /\ UNCHANGED clientVars
  /\ UNCHANGED proxyVars
  /\ UNCHANGED <<registeredComponents, classTag, enableCalls,
                 serverEnableCalls, terminateCalls, unmountCalls>>

\* what invoking a hook of kind `kind` leaves in the instance
AfterHook(kind) ==
  CASE kind = "returns" -> "returned"
    [] kind = "throws" -> "threw"
    [] OTHER -> "running"

\* mountComponent(component): the hook, when there is one, is invoked; the
\* promise it may return is given a catch handler and is not waited for
mountComponent(instance) ==
  IF hookKind(instance.class) = "absent" THEN instance
  ELSE [instance EXCEPT !.didMountCalls = @ + 1,
                        !.didMount = AfterHook(hookKind(instance.class))]

\* unmountComponent(component)
unmountComponent(instance) ==
  IF hookKind(instance.class) = "absent" THEN instance
  ELSE [instance EXCEPT !.willUnmountCalls = @ + 1,
                        !.willUnmount = AfterHook(hookKind(instance.class))]

\* componentInstances.forEach(f) visits the entries in insertion order and
\* ends at the first entry whose hook throws: the number of entries visited
Visited(map) ==
  LET throwers == {k \in 1 .. Len(map) : hookKind(map[k].class) = "throws"}
  IN IF throwers = {} THEN Len(map)
     ELSE CHOOSE k \in throwers : \A j \in throwers : k <= j
\* did forEach end with an exception
ForEachThrew(map) ==
  \E k \in 1 .. Len(map) : hookKind(map[k].class) = "throws"
\* the hooks forEach invoked, in order
HookCalls(e, map) ==
  LET called == SelectSeq(SubSeq(map, 1, Visited(map)),
                          LAMBDA entry : hookKind(entry.class) # "absent")
  IN [k \in 1 .. Len(called) |-> HookCall(e, called[k].inst)]

\* _send(message) over a transport whose sendMessage returns without calling
\* back into the peer
SendDirect(message) ==
  LET text == Stringify(message, Len(submitted) + 1)
      q == Append(requestQueue, text)
  IN /\ submitted' = Append(submitted, text)
     /\ IF connected
        THEN requestQueue' = << >> /\ sent' = sent \o q
        ELSE requestQueue' = q /\ sent' = sent

\* the enable of the server peer (super.enable): from then on the requests
\* of the guest are serviced
ServerEnable ==
  serverEnableCalls' = serverEnableCalls + 1

\* ComponentSystem.enable()
Enable ==
  /\ stack = << >>
  /\ enableCalls < MaxEnable
  /\ enableCalls' = enableCalls + 1
  /\ componentInstances' =
       [k \in 1 .. Len(componentInstances) |->
          IF k <= Visited(componentInstances)
          THEN mountComponent(componentInstances[k])
          ELSE componentInstances[k]]
  /\ IF ForEachThrew(componentInstances)
     THEN /\ trace' = <<Event("systemWillEnable")>> \o
                      HookCalls("componentDidMount", componentInstances)
          /\ last' = Outcome("enable", TRUE, "undefined", NoId)
          /\ UNCHANGED serverEnableCalls
     ELSE /\ trace' = <<Event("systemWillEnable")>> \o
                      HookCalls("componentDidMount", componentInstances) \o
                      <<Event("enable")>>
          /\ ServerEnable
          /\ last' = Outcome("enable", FALSE, "undefined", NoId)
  /\ UNCHANGED clientVars
  /\ UNCHANGED proxyVars
  /\ UNCHANGED <<registeredComponents, classTag, constructorCalls,
                 terminateCalls, unmountCalls>>

\* ComponentSystem.unmount(); an instance that has left the instance map is
\* out of the system's reach, and the model forgets it
Unmount ==
  /\ stack = << >>
  /\ unmountCalls < MaxUnmount
  /\ unmountCalls' = unmountCalls + 1
  /\ SendDirect([id |-> NoId, method |-> "SIGKILL", params |-> "undefined"])
  /\ IF ForEachThrew(componentInstances)
     THEN /\ trace' = <<Event("SIGKILL"), Event("systemWillUnmount")>> \o
                      HookCalls("componentWillUnmount", componentInstances)
          /\ componentInstances' =
               [k \in 1 .. Len(componentInstances) |->
                  IF k <= Visited(componentInstances)
                  THEN unmountComponent(componentInstances[k])
                  ELSE componentInstances[k]]
          /\ last' = Outcome("unmount", TRUE, "undefined", NoId)
          /\ UNCHANGED terminateCalls
     ELSE /\ trace' = <<Event("SIGKILL"), Event("systemWillUnmount")>> \o
                      HookCalls("componentWillUnmount", componentInstances) \o
                      <<Event("clear"), Event("terminate"),
                        Event("systemDidUnmount")>>
          /\ componentInstances' = << >>
          /\ terminateCalls' = terminateCalls + 1
          /\ last' = Outcome("unmount", FALSE, "undefined", NoId)
  /\ UNCHANGED <<connected, nextMessageId, responsePromiseMap, promises,
                 stack, emitted, inbound, received>>
  /\ UNCHANGED <<registeredComponents, classTag, constructorCalls,
                 enableCalls, serverEnableCalls>>
  /\ UNCHANGED proxyVars

\* the promise a hook returned is settled: fulfilled, or rejected, which
\* the catch handler reports to the console
HookSettles(k) ==
  /\ k \in 1 .. Len(componentInstances)
  /\ \/ /\ componentInstances[k].didMount = "running"
        /\ componentInstances' =
             [componentInstances EXCEPT ![k].didMount = "settled"]
     \/ /\ componentInstances[k].willUnmount = "running"
        /\ componentInstances' =
             [componentInstances EXCEPT ![k].willUnmount = "settled"]
  /\ UNCHANGED clientVars
  /\ UNCHANGED proxyVars
  /\ UNCHANGED <<last, registeredComponents, classTag, constructorCalls,
                 enableCalls, serverEnableCalls, terminateCalls, unmountCalls,
                 trace>>

(* ------------------------------ api() ---------------------------------- *)
\* the property names read on the root built by api() ...
Domains == {"Foo", "Bar"}
RootProps == Domains \cup {InheritedKey, "prototype"}
\* ... and on a proxy root.X, built by api("X.")
ListenerProps == {"onEvent"}
EmitProps == {"emitEvent"}
CallProps == {"bar", "on"}
DomainProps ==
  ListenerProps \cup EmitProps \cup CallProps \cup {InheritedKey, "prototype"}
Props == RootProps \cup DomainProps
\* the targets: that of the root, and that of each proxy root.X
ProxyKeys == {"root"} \cup Domains

\* objects are told apart by a number: those the get traps create are
\* numbered from 1, 0 is undefined, and two objects exist beforehand
ObjectPrototype == 0 - 2
ObjectPrototypeToString == 0 - 3

\* a trap that never finds a cached value
TargetGetNothing(targets, key, prop) == 0

\* target[prop]: the property the trap stored, else the one that the target,
\* a plain object, inherits from Object.prototype
TargetGet(targets, key, prop) ==
  IF targets[key][prop] # 0 THEN targets[key][prop]
  ELSE IF prop = InheritedKey THEN ObjectPrototypeToString
  ELSE 0

\* the get trap on the target `key`: the value it returns, and the targets
\* and the number of objects created as it leaves them
ProxyGet(targets, objects, key, prop) ==
  IF TargetGet(targets, key, prop) # 0
  THEN [value |-> TargetGet(targets, key, prop), targets |-> targets,
        objects |-> objects]
  ELSE IF prop = "prototype"
  THEN [value |-> ObjectPrototype, targets |-> targets, objects |-> objects]
  ELSE [value |-> objects + 1,
        targets |-> [targets EXCEPT ![key][prop] = objects + 1],
        objects |-> objects + 1]

\* root.X for key = "root", root.X.p for key = X: a property is read
Get(key, prop) ==
  /\ stack = << >>
  /\ IF key = "root" THEN prop \in RootProps
     ELSE prop \in DomainProps /\ proxyTargets["root"][key] # 0
  /\ LET r == ProxyGet(proxyTargets, proxyObjects, key, prop)
     IN /\ r.objects <= MaxProxyObjects
        /\ proxyTargets' = r.targets
        /\ proxyObjects' = r.objects
        /\ last' = Outcome("get", FALSE, prop, r.value)
  /\ UNCHANGED listeners
  /\ UNCHANGED clientVars
  /\ UNCHANGED systemVars

\* root.X.onEvent(handler): the function registers a listener with this.on
InvokeOn(domain, prop) ==
  /\ stack = << >>
  /\ prop \in ListenerProps
  /\ proxyTargets[domain][prop] # 0
  /\ listeners < MaxListeners
  /\ listeners' = listeners + 1
  /\ last' = Outcome("on", FALSE, prop, NoId)
  /\ UNCHANGED <<proxyTargets, proxyObjects>>
  /\ UNCHANGED clientVars
  /\ UNCHANGED systemVars

\* root.X.emitEvent(...args): the function sends the notification X.Event
InvokeEmit(domain, prop) ==
  /\ prop \in EmitProps
  /\ proxyTargets[domain][prop] # 0
  /\ Notify(domain \o ".Event", "array")

\* root.X.p(...args): the function calls the method X.p
InvokeCall(domain, prop) ==
  /\ prop \in CallProps
  /\ proxyTargets[domain][prop] # 0
  /\ Call(domain \o "." \o prop, "array")

(* --------------------------- specification ----------------------------- *)
Init ==
  /\ connected = FALSE
  /\ requestQueue = << >>
  /\ nextMessageId = 0
  /\ responsePromiseMap = {}
  /\ promises = [i \in 1 .. MaxPending |-> NoPromise]
  /\ sent = << >>
  /\ submitted = << >>
  /\ stack = << >>
  /\ emitted = << >>
  /\ inbound = 0
  /\ received = NothingReceived
  /\ last = Outcome("new", FALSE, "undefined", NoId)
  /\ registeredComponents = [n \in Names |-> "none"]
  /\ classTag = [c \in AllClasses |-> "none"]
  /\ componentInstances = << >>
  /\ constructorCalls = 0
  /\ enableCalls = 0
  /\ serverEnableCalls = 0
  /\ terminateCalls = 0
  /\ unmountCalls = 0
  /\ trace = << >>
  /\ proxyTargets = [key \in ProxyKeys |-> [prop \in Props |-> 0]]
  /\ proxyObjects = 0
  /\ listeners = 0

vars == <<connected, requestQueue, nextMessageId, responsePromiseMap,
          promises, sent, submitted, stack, emitted, inbound, received, last,
          registeredComponents, classTag, componentInstances,
          constructorCalls, enableCalls, serverEnableCalls, terminateCalls,
          unmountCalls, trace, proxyTargets, proxyObjects, listeners>>

\* the sending side of a peer: submissions, the connect signal and the
\* transport returning from sendMessage
Next ==
  \/ DidConnect
  \/ \E params \in ParamVals : Call("A", params)
  \/ \E params \in ParamVals : Notify("B", params)
  \/ SendMessageReturns

Spec == Init /\ [][Next]_vars

\* the receiving side of a peer: calls and the strings the transport delivers
NextInbound ==
  \/ DidConnect
  \/ \E params \in {"array", "number"} : Call("A", params)
  \/ SendMessageReturns
  \/ \E raw \in RawMessages : ProcessMessage(raw)

SpecInbound == Init /\ [][NextInbound]_vars

\* a Component System on the host: registration, lookups, the LoadComponents
\* handler, enable and unmount, the connect signal of its transport
NextSystem ==
  \/ \E componentName \in Names, api \in Classes \cup {"object"} :
       RegisterComponent(componentName, api)
  \/ \E component \in RequestNames \cup Classes \cup {"object"} :
       GetComponentInstance(component)
  \/ \E componentNames \in LoadArguments : RPCLoadComponents(componentNames)
  \/ Enable
  \/ Unmount
  \/ \E k \in 1 .. Cardinality(Names) : HookSettles(k)
  \/ DidConnect
  \/ SendMessageReturns

SpecSystem == Init /\ [][NextSystem]_vars

\* the registry of the process and the lookups of one Component System:
\* registration of classes, of a subclass and of a plain object, lookups by
\* name and by class, the LoadComponents handler
NextRegistry ==
  \/ \E componentName \in Names, api \in AllClasses \cup {"object"} :
       RegisterComponent(componentName, api)
  \/ \E component \in RequestNames \cup AllClasses \cup {"object"} :
       GetComponentInstance(component)
  \/ \E componentNames \in LoadArguments : RPCLoadComponents(componentNames)

SpecRegistry == Init /\ [][NextRegistry]_vars

\* a guest that reads properties of the root built by api() and of the
\* proxies below it, and invokes the functions it has read
NextProxy ==
  \/ \E key \in ProxyKeys, prop \in Props : Get(key, prop)
  \/ \E domain \in Domains, prop \in DomainProps : InvokeOn(domain, prop)
  \/ \E domain \in Domains, prop \in DomainProps : InvokeEmit(domain, prop)
  \/ \E domain \in Domains, prop \in DomainProps : InvokeCall(domain, prop)

SpecProxy == Init /\ [][NextProxy]_vars

(* ------------------------------ claims --------------------------------- *)
\* the strings a flush in progress still has to hand over, innermost last
RECURSIVE Flatten(_)
Flatten(frames) ==
  IF frames = << >> THEN << >>
  ELSE Head(frames) \o Flatten(Tail(frames))

\* how often the message m occurs in the sequence q
Count(q, m) == Cardinality({k \in 1 .. Len(q) : q[k] = m})

\* C1: FIFO send order: the strings handed to sendMessage are, in order, the
\* messages in the order in which they were submitted, also for submissions
\* made while a flush of the queue is in progress
C1_FifoSendOrder ==
  /\ Len(sent) <= Len(submitted)
  /\ \A k \in 1 .. Len(sent) : sent[k] = submitted[k]

\* C2: nothing is handed to sendMessage while connected = false; every
\* submitted message is in exactly one place (handed over, in a flush in
\* progress, or in the queue), so none is lost and none is duplicated; once
\* the peer is connected and at rest every submitted message has been handed
\* to sendMessage exactly once
C2_QueuedBeforeConnect ==
  /\ ~connected => (sent = << >> /\ stack = << >> /\ requestQueue = submitted)
  /\ \A k \in 1 .. Len(submitted) :
       Count(sent, submitted[k]) + Count(Flatten(stack), submitted[k])
         + Count(requestQueue, submitted[k]) = 1
  /\ Len(sent) + Len(Flatten(stack)) + Len(requestQueue) = Len(submitted)
  /\ (connected /\ stack = << >>) =>
       /\ requestQueue = << >>
       /\ \A k \in 1 .. Len(submitted) : Count(sent, submitted[k]) = 1

\* two messages were queued before the connect signal, and the flush that
\* didConnect started has handed both over and has ended
C2_Witness ==
  /\ last.op = "didConnect"
  /\ connected
  /\ stack = << >>
  /\ Len(sent) = 2
  /\ requestQueue = << >>

\* the step is an invocation of processMessage
ProcessMessageStep == inbound' = inbound + 1

\* is raw a response to an id of the pending-call table
PendingResponse(raw) ==
  /\ raw.t = "json"
  /\ raw.top = "object"
  /\ IdTruthy(raw)
  /\ raw.id \in responsePromiseMap

\* C3: after processMessage handles a message whose id is in the
\* pending-call table, that id is no longer in the table
C3_PendingEntryRemoved ==
  [][(ProcessMessageStep /\ PendingResponse(received'))
       => received'.id \notin responsePromiseMap']_vars

\* C4: the completion handle (resolve/reject) recorded for a call id is
\* invoked at most once
C4_SettledAtMostOnce ==
  \A i \in 1 .. MaxPending : promises[i].settleCalls <= 1

\* C5: a response whose id is pending and that carries a result field
\* resolves the call with that result, whatever JSON value it is, and emits
\* no 'error'
C5_ResultResolves ==
  [][(/\ ProcessMessageStep
      /\ PendingResponse(received')
      /\ promises[received'.id].state = "pending"
      /\ received'.result # "undefined")
       => /\ promises'[received'.id].state = "resolved"
          /\ promises'[received'.id].value = received'.result
          /\ emitted' = emitted]_vars

\* C6: a response to a pending call that carries an error object and no
\* result rejects the call with an error that has the message (when the
\* remote error has one), the code and the data of the remote error; a call
\* that was rejected is never resolved
C6_RemoteFailureRejects ==
  [][/\ (/\ ProcessMessageStep
         /\ PendingResponse(received')
         /\ promises[received'.id].state = "pending"
         /\ received'.error.k = "object"
         /\ received'.result = "undefined")
          => /\ promises'[received'.id].state = "rejected"
             /\ promises'[received'.id].settleCalls = 1
             /\ received'.error.message # "undefined" =>
                  promises'[received'.id].error.message
                    = received'.error.message
             /\ promises'[received'.id].error.code = received'.error.code
             /\ promises'[received'.id].error.data = received'.error.data
     /\ \A i \in 1 .. MaxPending :
          promises[i].state = "rejected" =>
            /\ promises'[i].state = "rejected"
            /\ promises'[i].error = promises[i].error]_vars

\* the response {id, error: {message: "boom", ...}} has just rejected its
\* call, and the caller sees the message "boom"
C6_Witness ==
  /\ last.op = "processMessage"
  /\ received.error.k = "object"
  /\ received.error.message = "boom"
  /\ received.result = "undefined"
  /\ received.id \in 1 .. MaxPending
  /\ promises[received.id].state = "rejected"
  /\ promises[received.id].settleCalls = 1
  /\ promises[received.id].error.message = "boom"

\* C7: call and notify with params that are neither absent, an array nor an
\* object throw and leave the peer unchanged: no id is allocated, no pending
\* entry is added, nothing is queued or handed to the transport
C7_ParameterContract ==
  [][\A method \in Methods, params \in ParamVals :
       ((Call(method, params) \/ Notify(method, params))
          /\ ~Structured(params))
         => /\ last'.threw
            /\ UNCHANGED clientVars]_vars

\* a string that is not JSON, the JSON of a falsy value, a response with an
\* id that is not pending, an object with neither id nor method
Malformed(raw) ==
  \/ raw.t = "bad"
  \/ raw.t = "json" /\ ~Truthy(raw.top)
  \/ raw.t = "json" /\ raw.top = "object" /\ IdTruthy(raw)
       /\ raw.id \notin responsePromiseMap
  \/ raw.t = "json" /\ raw.top = "object" /\ ~IdTruthy(raw)
       /\ raw.method = "undefined"

\* the 'error' events processMessage emits for malformed input
MalformedErrors ==
  {"error: parse", "error: null message", "error: no pending request",
   "error: invalid message"}

\* C8: processMessage on malformed input emits 'error' exactly once, does
\* not throw, settles no promise and leaves the pending-call table, the send
\* queue and the transport untouched
C8_MalformedInbound ==
  [][(ProcessMessageStep /\ Malformed(received'))
       => /\ Len(emitted') = Len(emitted) + 1
          /\ emitted'[Len(emitted')] \in MalformedErrors
          /\ SubSeq(emitted', 1, Len(emitted)) = emitted
          /\ ~last'.threw
          /\ UNCHANGED <<promises, responsePromiseMap, requestQueue, sent,
                         submitted, stack, nextMessageId, connected>>]_vars

\* a malformed string was processed and reported, and the valid response
\* that came after it has resolved its call
C8_Witness ==
  /\ inbound = 2
  /\ Len(emitted) = 1
  /\ emitted[1] \in MalformedErrors
  /\ last.op = "processMessage"
  /\ PendingResponse(received)
  /\ received.result = "42"
  /\ promises[received.id].state = "resolved"
  /\ promises[received.id].value = "42"

\* C9: when enable invokes the enable of the server peer, systemWillEnable
\* was emitted first, componentDidMount of every instance of the map was
\* invoked in insertion order, and every such hook has run to completion
C9_EnableBarrier ==
  (last.op = "enable" /\ ~last.threw) =>
    /\ trace = <<Event("systemWillEnable")>> \o
               HookCalls("componentDidMount", componentInstances) \o
               <<Event("enable")>>
    /\ \A k \in 1 .. Len(componentInstances) :
         componentInstances[k].didMount # "running"

\* C10: an instance receives componentDidMount exactly once and
\* componentWillUnmount at most once: no hook is invoked twice on it, and
\* once the system was enabled every instance of the map was mounted, also
\* the instances created after enable
C10_InstanceLifecycle ==
  \A k \in 1 .. Len(componentInstances) :
    LET instance == componentInstances[k] IN
    hookKind(instance.class) # "absent" =>
      /\ instance.didMountCalls <= 1
      /\ instance.willUnmountCalls <= 1
      /\ serverEnableCalls > 0 => instance.didMountCalls = 1
      /\ instance.willUnmountCalls = 1 => instance.didMountCalls = 1

\* is the SIGKILL notification among the strings handed to sendMessage
SigkillSent == \E k \in 1 .. Len(sent) : sent[k].method = "SIGKILL"

\* C11: every execution of unmount produces, in this order, the SIGKILL
\* notification handed to the transport, systemWillUnmount,
\* componentWillUnmount of each instance, an empty instance map, the
\* termination of the worker and systemDidUnmount; the SIGKILL message has
\* reached the transport when the worker is terminated, connected or not
C11_UnmountSequence ==
  (last.op = "unmount" /\ ~last.threw) =>
    /\ Len(trace) >= 5
    /\ trace[1] = Event("SIGKILL")
    /\ trace[2] = Event("systemWillUnmount")
    /\ SubSeq(trace, Len(trace) - 2, Len(trace)) =
         <<Event("clear"), Event("terminate"), Event("systemDidUnmount")>>
    /\ \A k \in 3 .. (Len(trace) - 3) : trace[k].e = "componentWillUnmount"
    /\ componentInstances = << >>
    /\ SigkillSent

\* C12: an exception of a componentDidMount or componentWillUnmount hook,
\* thrown or delivered as a rejected promise, does not leave enable or
\* unmount, and the remaining steps happen: enable invokes the enable of the
\* server peer; unmount clears the map, terminates the worker and emits
\* systemDidUnmount
C12_LifecycleErrorsSwallowed ==
  /\ last.op = "enable" =>
       /\ ~last.threw
       /\ trace # << >>
       /\ trace[Len(trace)] = Event("enable")
  /\ last.op = "unmount" =>
       /\ ~last.threw
       /\ trace # << >>
       /\ trace[Len(trace)] = Event("systemDidUnmount")
       /\ componentInstances = << >>

\* how many SIGKILL notifications _send accepted
SigkillCount ==
  Cardinality({k \in 1 .. Len(submitted) : submitted[k].method = "SIGKILL"})

\* C13: a second unmount repeats none of the effects of the first: there is
\* at most one SIGKILL message and at most one termination of the worker,
\* and the second invocation emits no event and invokes no hook
C13_UnmountIdempotent ==
  /\ SigkillCount <= 1
  /\ terminateCalls <= 1
  /\ (last.op = "unmount" /\ unmountCalls >= 2) => trace = << >>

\* the names registerComponent was given
RegisteredNames == {n \in Names : registeredComponents[n] # "none"}

\* C14: the constructor (or factory) of a registered component is invoked at
\* most once per system, whatever lookups, LoadComponents, enable and
\* unmount precede: there are never more constructions than registered
\* components, and the map holds one instance per name, which every lookup
\* of that component returns
C14_OneInstancePerComponent ==
  /\ constructorCalls <= Cardinality(RegisteredNames)
  /\ \A j, k \in 1 .. Len(componentInstances) :
       componentInstances[j].name = componentInstances[k].name => j = k

\* the registry maps n to C exactly when C has the tag n
RegistryMatchesTags ==
  \A n \in Names, C \in AllClasses :
    registeredComponents[n] = C <=> classTag[C] = n

\* C15: registering a second class under a registered name, or a class that
\* has a tag under any name, raises an error and leaves the registry and
\* the tags unchanged; the registry maps n to C exactly when C has the tag
\* n, and no class is registered under two names
C15_RegistryUniqueness ==
  /\ RegistryMatchesTags
  /\ [][/\ \A componentName \in Names, api \in AllClasses \cup {"object"} :
            (/\ RegisterComponent(componentName, api)
             /\ \/ registeredComponents[componentName] # "none"
                \/ HasTag(api))
              => /\ last'.threw
                 /\ UNCHANGED <<registeredComponents, classTag>>
        /\ RegistryMatchesTags'
        /\ \A n, m \in Names :
             (registeredComponents'[n] # "none"
                /\ registeredComponents'[n] = registeredComponents'[m])
               => n = m]_vars

\* both names are registered, and the registration that came last was
\* refused because its class has a tag already
C15_Witness ==
  /\ last.op = "registerComponent"
  /\ last.threw
  /\ last.arg = "class registered"
  /\ RegisteredNames = Names
  /\ registeredComponents["Foo"] # registeredComponents["Bar"]

\* the names of the request that registerComponent was not given, in request
\* order
NotRegistered(names) ==
  SelectSeq(names, LAMBDA n : n \notin RegisteredNames)

\* C16: LoadComponents(names) succeeds when every name is registered, and
\* then every listed name has an instance; otherwise it fails with an error
\* that lists exactly the names that are not registered, in request order;
\* an argument that is not an array fails and creates no instance
C16_LoadComponents ==
  [][\A componentNames \in LoadArguments :
       RPCLoadComponents(componentNames) =>
         IF ~componentNames.isArray
         THEN last'.threw /\ UNCHANGED <<componentInstances, constructorCalls>>
         ELSE IF NotRegistered(componentNames.names) = << >>
         THEN /\ ~last'.threw
              /\ \A k \in 1 .. Len(componentNames.names) :
                   MapHas(componentInstances', componentNames.names[k])
         ELSE /\ last'.threw
              /\ last'.arg = "Components not found"
              /\ trace' = [k \in 1 .. Len(NotRegistered(componentNames.names)) |->
                             Event("not found: " \o
                                   NotRegistered(componentNames.names)[k])]]_vars

\* C18: when no call, notify or didConnect is in progress, the send queue is
\* non-empty only while connected = false: once connected the queue is
\* empty after every operation; connected never returns to false
C18_SendQueueInvariant ==
  /\ (stack = << >> /\ requestQueue # << >>) => ~connected
  /\ [][/\ connected => connected'
        /\ (connected' /\ stack' = << >>) => requestQueue' = << >>]_vars

\* three messages were queued while the peer was not connected, and the
\* flush of didConnect has emptied the queue and has ended
C18_Witness ==
  /\ last.op = "didConnect"
  /\ connected
  /\ stack = << >>
  /\ requestQueue = << >>
  /\ Len(sent) = 3
  /\ \A k \in 1 .. 3 : sent[k] = submitted[k]

\* C19: the ids of the requests are 1, 2, 3, ... in the order of the calls,
\* no id is allocated twice, a notification has no id, and every id of the
\* pending-call table is at most the last allocated id and is the id of a
\* request that was queued or handed to the transport
C19_RequestIds ==
  /\ \A j, k \in 1 .. Len(submitted) :
       (submitted[j].id # NoId /\ j < k /\ submitted[k].id # NoId)
         => submitted[j].id < submitted[k].id
  /\ \A k \in 1 .. Len(submitted) :
       IF submitted[k].method = "B" THEN submitted[k].id = NoId
       ELSE submitted[k].id \in 1 .. nextMessageId
  /\ \A i \in responsePromiseMap :
       /\ i <= nextMessageId
       /\ \E k \in 1 .. Len(submitted) : submitted[k].id = i

\* C20: a response with id i settles the completion handle recorded by the
\* call that was allocated id i and no other: a step of processMessage
\* changes at most the promise of the id received, what it makes of that
\* promise depends on that promise and on the message alone, and a
\* notification changes no promise; so the outcome of a call does not
\* depend on the order in which the responses to other calls arrive
C20_CorrelationById ==
  [][ProcessMessageStep =>
       /\ \A i \in 1 .. MaxPending :
            promises'[i] # promises[i] =>
              /\ PendingResponse(received')
              /\ received'.id = i
              /\ promises'[i] \in
                   {Resolve(promises[i], received'.result),
                    Reject(promises[i], RemoteError(received'.error))}
       /\ ~IdTruthy(received') => promises' = promises]_vars

\* two calls are outstanding; the response to the second arrived first and
\* rejected it, the response to the first arrived after it and resolved it
C20_Witness ==
  /\ nextMessageId = 2
  /\ inbound = 2
  /\ received.id = 1
  /\ received.result = "42"
  /\ promises[1].state = "resolved"
  /\ promises[1].value = "42"
  /\ promises[1].settleCalls = 1
  /\ promises[2].state = "rejected"
  /\ promises[2].error.message = "boom"
  /\ promises[2].settleCalls = 1

\* the step is a property read on a proxy
GetStep == last'.op = "get"

\* C17: repeated access to root.X and to root.X.p returns the identical
\* value, for every property name: a value the trap has stored is never
\* replaced, and after a read of a property a further read of it, and then
\* one more, return one value and change nothing; a read, first or
\* repeated, registers no listener, allocates no id and sends or queues no
\* message
C17_ProxyIdempotence ==
  [][/\ \A key \in ProxyKeys, prop \in Props :
          proxyTargets[key][prop] # 0 =>
            proxyTargets'[key][prop] = proxyTargets[key][prop]
     /\ GetStep =>
          /\ UNCHANGED <<listeners, nextMessageId, responsePromiseMap,
                         promises, requestQueue, sent, submitted, stack>>
          /\ \E key \in ProxyKeys :
               last'.id = ProxyGet(proxyTargets', proxyObjects', key,
                                   last'.arg).value
          /\ \A key \in ProxyKeys :
               LET first == ProxyGet(proxyTargets', proxyObjects', key,
                                     last'.arg)
                   second == ProxyGet(first.targets, first.objects, key,
                                      last'.arg)
               IN /\ second.value = first.value
                  /\ second.targets = first.targets
                  /\ second.objects = first.objects]_vars

\* root.Foo.bar was read, another function was created after it, and
\* root.Foo.bar was read again: the read returned the function of the
\* first read
C17_Witness ==
  /\ last.op = "get"
  /\ last.arg = "bar"
  /\ proxyTargets["Foo"]["bar"] # 0
  /\ last.id = proxyTargets["Foo"]["bar"]
  /\ proxyTargets["Bar"]["bar"] = 0
  /\ last.id < proxyObjects
  /\ submitted # << >>
====
